---- MODULE Spec2Model ----
(***************************************************************************)
(* VideoLab server (server.js): the upload -> ffmpeg -> download pipeline  *)
(* of POST /api/convert and POST /api/clip, with the scratch directory,    *)
(* the child-process events and the HTTP responses of each request.        *)
(*                                                                         *)
(* Numbers are fixed-point tenths of a second (5 seconds is 50); strings   *)
(* that the code parses or concatenates are tuples of one-character        *)
(* strings.                                                                *)
(***************************************************************************)
EXTENDS Integers, Sequences, FiniteSets, TLC

\* ---------------------------------------------------------------- bounds
NumReq == 2
MaxClock == 2

Requests == 1..NumReq

\* ------------------------------------------------------- values and text
\* a multipart field that the client did not send (req.body.x === undefined)
undefinedField == "<undefined>"
\* the same for a field whose text the code parses character by character
Absent == <<undefinedField>>

NaN == [nan |-> TRUE, val |-> 0]
Num(v) == [nan |-> FALSE, val |-> v]

Digits == {"0", "1", "2", "3", "4", "5", "6", "7", "8", "9"}
DigitVal(c) ==
    CASE c = "0" -> 0 [] c = "1" -> 1 [] c = "2" -> 2 [] c = "3" -> 3
      [] c = "4" -> 4 [] c = "5" -> 5 [] c = "6" -> 6 [] c = "7" -> 7
      [] c = "8" -> 8 [] c = "9" -> 9
DigitChar(d) ==
    CASE d = 0 -> "0" [] d = 1 -> "1" [] d = 2 -> "2" [] d = 3 -> "3"
      [] d = 4 -> "4" [] d = 5 -> "5" [] d = 6 -> "6" [] d = 7 -> "7"
      [] d = 8 -> "8" [] d = 9 -> "9"

Drop(s, n) == SubSeq(s, n + 1, Len(s))

\* the longest prefix of s made of digits
RECURSIVE DigitPrefix(_)
DigitPrefix(s) ==
    IF s # <<>> /\ Head(s) \in Digits
    THEN <<Head(s)>> \o DigitPrefix(Tail(s))
    ELSE <<>>

RECURSIVE DigitsValue(_)
DigitsValue(ds) ==
    IF ds = <<>> THEN 0
    ELSE DigitsValue(SubSeq(ds, 1, Len(ds) - 1)) * 10 + DigitVal(ds[Len(ds)])

RECURSIVE TrimStart(_)
TrimStart(s) == IF s # <<>> /\ Head(s) = " " THEN TrimStart(Tail(s)) ELSE s

\* parseFloat(x): leading blanks are skipped, then the longest prefix that is
\* a decimal literal (sign, digits, '.', digits) is the value and the rest is
\* ignored; no such prefix gives NaN.  The result is in tenths: the texts of
\* StartStrings and EndStrings carry at most one fractional digit and neither
\* an exponent nor "Infinity".
parseFloat(s) ==
    LET t == TrimStart(s)
        neg == t # <<>> /\ Head(t) = "-"
        signed == t # <<>> /\ Head(t) \in {"-", "+"}
        u == IF signed THEN Tail(t) ELSE t
        ip == DigitPrefix(u)
        afterInt == Drop(u, Len(ip))
        fp == IF afterInt # <<>> /\ Head(afterInt) = "."
              THEN DigitPrefix(Tail(afterInt)) ELSE <<>>
        mag == DigitsValue(ip) * 10 + (IF fp = <<>> THEN 0 ELSE DigitVal(fp[1]))
    IN  IF ip = <<>> /\ fp = <<>> THEN NaN
        ELSE Num(IF neg THEN 0 - mag ELSE mag)

isNaN(x) == x.nan

\* x || 0 for a number x: NaN and 0 are falsy
OrZero(x) == IF x.nan \/ x.val = 0 THEN Num(0) ELSE x

RECURSIVE NatText(_)
NatText(n) ==
    IF n < 10 THEN <<DigitChar(n)>>
    ELSE NatText(n \div 10) \o <<DigitChar(n % 10)>>

\* Number.prototype.toString() of a value held in tenths: no fraction is
\* printed for a whole number
numberToString(x) ==
    LET m == IF x.val < 0 THEN 0 - x.val ELSE x.val
    IN  (IF x.val < 0 THEN <<"-">> ELSE <<>>)
        \o NatText(m \div 10)
        \o (IF m % 10 = 0 THEN <<>> ELSE <<".", DigitChar(m % 10)>>)

\* Number.prototype.toFixed(1) of a value held in tenths
toFixed1(x) ==
    LET m == IF x.val < 0 THEN 0 - x.val ELSE x.val
    IN  (IF x.val < 0 THEN <<"-">> ELSE <<>>)
        \o NatText(m \div 10) \o <<".">> \o <<DigitChar(m % 10)>>

\* path.parse(name).name: the base name without its extension; the extension
\* starts at the last '.', unless that '.' is the first character
LastDot(s) ==
    LET I == {i \in 1..Len(s) : s[i] = "."}
    IN  IF I = {} THEN 0 ELSE CHOOSE i \in I : \A j \in I : j <= i
pathParseName(s) ==
    IF LastDot(s) <= 1 THEN s ELSE SubSeq(s, 1, LastDot(s) - 1)

\* ------------------------------------------------------------ the registry
\* FORMATS: the object literal of supported output formats
FORMATS ==
    [f \in {"mp4", "webm", "mkv", "mov", "mp3", "wav"} |->
        CASE f = "mp4"  -> [ext |-> <<"m", "p", "4">>,
                            codec |-> <<"-c:v", "libx264", "-c:a", "aac", "-preset", "fast">>]
          [] f = "webm" -> [ext |-> <<"w", "e", "b", "m">>,
                            codec |-> <<"-c:v", "libvpx-vp9", "-c:a", "libopus", "-b:v", "1M">>]
          [] f = "mkv"  -> [ext |-> <<"m", "k", "v">>,
                            codec |-> <<"-c:v", "libx264", "-c:a", "aac", "-preset", "fast">>]
          [] f = "mov"  -> [ext |-> <<"m", "o", "v">>,
                            codec |-> <<"-c:v", "libx264", "-c:a", "aac", "-preset", "fast">>]
          [] f = "mp3"  -> [ext |-> <<"m", "p", "3">>,
                            codec |-> <<"-vn", "-c:a", "libmp3lame", "-q:a", "2">>]
          [] f = "wav"  -> [ext |-> <<"w", "a", "v">>,
                            codec |-> <<"-vn", "-c:a", "pcm_s16le">>]]

\* FORMATS is a plain object: a property read that misses the own keys goes
\* on to Object.prototype, whose members are functions or objects (truthy)
ObjectPrototypeKeys ==
    {"constructor", "toString", "toLocaleString", "valueOf", "hasOwnProperty",
     "isPrototypeOf", "propertyIsEnumerable", "__proto__", "__defineGetter__",
     "__defineSetter__", "__lookupGetter__", "__lookupSetter__"}

\* FORMATS[key]: truthy says whether `!FORMATS[key]` is false; ext is what the
\* template literal prints for `.ext`; iterable says whether `...x.codec`
\* can be spread (spreading undefined throws a TypeError)
FormatsGet(key) ==
    IF key \in DOMAIN FORMATS
    THEN [truthy |-> TRUE, ext |-> FORMATS[key].ext,
          codec |-> FORMATS[key].codec, iterable |-> TRUE]
    ELSE IF key \in ObjectPrototypeKeys
    THEN [truthy |-> TRUE, ext |-> <<"undefined">>,
          codec |-> <<>>, iterable |-> FALSE]
    ELSE [truthy |-> FALSE, ext |-> <<"undefined">>,
          codec |-> <<>>, iterable |-> FALSE]

\* ------------------------------------------------------------------ state
VARIABLES
    ffmpegAvailable,  \* the flag cached at startup
    serverUp,         \* the process is listening and has not crashed
    now,              \* the last value Date.now() returned, in milliseconds
    files,            \* the paths that exist in TEMP_DIR
    req,              \* per request: the upload, the body, the handler's
                      \* locals, the child process and the response
    proc,             \* the process: its command line and environment, how
                      \* far the top-level script got, PORT, the exit status
    reply,            \* the last bodies of GET /api/ffmpeg-status and
                      \* GET /api/formats
    clipper,          \* the page's VideoClipper object and the elements it
                      \* drives (clipper.js)
    player,           \* the page's VideoLabPlayer object, its <video> element
                      \* and the requests and file reads it has in flight
    currentTab        \* TabManager.currentTab

\* the state of the page in the browser
client == <<clipper, player, currentTab>>
server == <<ffmpegAvailable, serverUp, now, files, req, proc, reply>>

vars ==
    <<ffmpegAvailable, serverUp, now, files, req, proc, reply,
      clipper, player, currentTab>>

\* ------------------------------------------------------ the clip tab: state
\* new VideoClipper(): times are in tenths of a second; loading says that
\* previewVideo.load() was called and 'loadedmetadata' is still to come, video
\* that a preview has loaded, currentTime is previewVideo.currentTime
NewClipper ==
    [selectedFile |-> FALSE, loading |-> FALSE, video |-> FALSE,
     duration |-> 0, startTime |-> 0, endTime |-> 0,
     isDragging |-> "null", currentTime |-> 0,
     startClipDisabled |-> FALSE, progressShown |-> FALSE, xhr |-> "none"]

\* playback speeds, in hundredths: the range setPlaybackSpeed keeps, the
\* default of userPreferences.speed and the step of adjustSpeed
MinSpeed == 10
MaxSpeed == 400
DefaultSpeed == 100
SpeedStep == 10

\* video.src when no file is set
NoSrc == <<>>

\* new VideoLabPlayer() over an empty <video>; speeds are in hundredths.
\* tracks are the labels of the <track> elements under the video, reading
\* the subtitle files a FileReader is still reading, conversions the state of
\* the convert-for-playback request of each file that has one
NewPlayer ==
    [localFiles |-> <<>>, nextId |-> 1, currentIndex |-> -1,
     src |-> NoSrc, loadState |-> "empty", paused |-> TRUE,
     isConverting |-> FALSE, promptShown |-> FALSE, promptFor |-> 0,
     convertBtnDisabled |-> FALSE, conversions |-> {},
     currentSubtitleTrack |-> <<>>, tracks |-> <<>>, subtitlesEnabled |-> TRUE,
     reading |-> {}, alerts |-> 0,
     speed |-> DefaultSpeed, playbackRate |-> DefaultSpeed]

ClientInit ==
    /\ clipper = NewClipper
    /\ player = NewPlayer
    /\ currentTab = "player"

NoPath == <<>>

\* `upload_${Date.now()}_${file.originalname}` under TEMP_DIR
uniqueName(t, originalname) == <<"upload_", t, originalname>>

\* convert: outputName and outputPath
convertOutputName(originalname, ext) ==
    <<"videoLab_">> \o pathParseName(originalname) \o <<".">> \o ext
convertOutputPath(t, originalname, ext) ==
    <<"out_", t, convertOutputName(originalname, ext)>>

\* clip: outputName and outputPath
clipOutputName(originalname, startTime, endTime, ext) ==
    <<"clip_">> \o pathParseName(originalname) \o <<"_">> \o toFixed1(startTime)
        \o <<"s-">> \o toFixed1(endTime) \o <<"s.">> \o ext
clipOutputPath(t, originalname, startTime, endTime, ext) ==
    <<"clip_", t, clipOutputName(originalname, startTime, endTime, ext)>>

\* ------------------------------------------------------ the child's stderr
\* A piece of what the child wrote to stderr is kept as the positions lo..hi it
\* has in that stream (empty when hi < lo): two pieces are the same text
\* exactly when they cover the same positions.
EmptyText == [lo |-> 1, hi |-> 0]
TextLength(s) == IF s.hi < s.lo THEN 0 ELSE s.hi - s.lo + 1

\* stderr += data.toString(), for a chunk of k characters
appendChunk(s, k) == [s EXCEPT !.hi = @ + k]

\* s.slice(-k): the last k characters, all of s when it is shorter
sliceLast(s, k) ==
    [lo |-> IF s.hi - k + 1 > s.lo THEN s.hi - k + 1 ELSE s.lo, hi |-> s.hi]

LogChars == 500
DetailsChars == 300

\* the details as they would be if the head of stderr were reported
failureDetailsHead(stderr) ==
    [lo |-> stderr.lo,
     hi |-> IF stderr.lo + DetailsChars - 1 < stderr.hi
            THEN stderr.lo + DetailsChars - 1 ELSE stderr.hi]

\* details: stderr.slice(-300)
failureDetails(stderr) == sliceLast(stderr, DetailsChars)

\* sizes of the chunks the child writes, and how many of them it may write
ChunkSizes == {150, 400}
MaxChunks == 2

IdleReq ==
    [pc |-> "idle", kind |-> "convert",
     hasFile |-> FALSE, originalname |-> <<>>, filePath |-> NoPath,
     format |-> undefinedField, startTime |-> Absent, endTime |-> Absent,
     inputPath |-> NoPath, outputPath |-> NoPath,
     clipStart |-> 0, clipEnd |-> 0,
     spawns |-> 0, exitCode |-> 0,
     status |-> 0, error |-> "", headersSent |-> FALSE,
     responses |-> 0, lateWrites |-> 0, delivery |-> "",
     stderr |-> EmptyText, chunks |-> 0,
     details |-> EmptyText, consoleError |-> EmptyText,
     args |-> <<>>,
     log |-> <<>>]

DefaultPort == 3000

\* the process before its top-level script has run
StartingProc(argv, env, locked) ==
    [phase |-> "boot", argv |-> argv, env |-> env, locked |-> locked,
     resolved |-> FALSE, PORT |-> NaN, exitStatus |-> 0, purges |-> 0]

\* the process started as `node server.js`, once app.listen has bound
ListeningProc ==
    [StartingProc(<<>>, Absent, {}) EXCEPT
        !.phase = "listening", !.resolved = TRUE, !.PORT = Num(DefaultPort),
        !.purges = 1]

NoReply == [status |-> <<>>, formats |-> {}]

\* the server once it listens on the default port, the scratch directory empty
Init ==
    /\ ffmpegAvailable \in BOOLEAN
    /\ serverUp = TRUE
    /\ now = 1
    /\ files = {}
    /\ req = [r \in Requests |-> IdleReq]
    /\ proc = ListeningProc
    /\ reply = NoReply
    /\ ClientInit

\* Date.now(): the values a call can return, given the last one; the clock
\* never goes back, and only whether two stamps are equal matters
DateNow == {t \in {now, now + 1} : t <= MaxClock}

\* ----------------------------------------------------------------- inputs
NameAvi == <<"a", ".", "a", "v", "i">>
NameMkv == <<"a", ".", "m", "k", "v">>
Names == {NameAvi, NameMkv}
FormatFields ==
    {undefinedField, "mp4", "webm", "mkv", "mov", "mp3", "wav", "flac",
     "constructor"}
StartStrings == {Absent, <<"5">>, <<"-", "5">>, <<"0", ".", "5">>}
EndStrings == {Absent, <<"x">>, <<"2">>, <<"5", "x">>, <<"-", "2">>, <<"9">>}

Input(kind, hasFile, name, format, startTime, endTime) ==
    [kind |-> kind, hasFile |-> hasFile, originalname |-> name,
     format |-> format, startTime |-> startTime, endTime |-> endTime]

\* every combination of the field values above (convert sends no time fields)
AllInputs ==
    {Input("convert", TRUE, n, f, Absent, Absent) : n \in Names, f \in FormatFields}
    \cup {Input("convert", FALSE, <<>>, f, Absent, Absent) : f \in FormatFields}
    \cup UNION {{Input("clip", TRUE, n, f, s, e) : n \in Names, f \in FormatFields}
                    : s \in StartStrings, e \in EndStrings}
    \cup UNION {{Input("clip", FALSE, <<>>, f, s, e) : f \in FormatFields}
                    : s \in StartStrings, e \in EndStrings}

\* one input of every outcome a request can have: accepted, rejected for its
\* file, its format or its range, and the inherited format name
OutcomeInputs ==
    {in \in AllInputs :
        /\ in.originalname \in {NameAvi, <<>>}
        /\ in.format \in {undefinedField, "mp4", "flac", "constructor"}
        /\ in.startTime \in {Absent, <<"5">>}
        /\ in.endTime \in {Absent, <<"2">>, <<"9">>}}

\* the requests that are sent concurrently
ConcInputs ==
    {Input("convert", TRUE, NameAvi, "mp4", Absent, Absent),
     Input("clip", TRUE, NameAvi, undefinedField, Absent, <<"2">>),
     Input("clip", TRUE, NameAvi, "mp4", <<"5">>, <<"2">>)}

\* ------------------------------------------------------- files, responses
\* fs.unlinkSync(p) inside try {} catch (e) {}: a missing file is ignored
tryUnlink(fs, p) == fs \ {p}

Logged(q, tags) == [q EXCEPT !.log = @ \o tags]
Finished(q) == [q EXCEPT !.pc = "done"]

\* res.status(st).json({error: err}) on a response whose headers are not sent
json(q, st, err) ==
    [q EXCEPT !.status = st, !.error = err, !.headersSent = TRUE,
              !.responses = @ + 1, !.log = @ \o <<"respond">>]

\* an exception thrown synchronously by a route handler: express catches it
\* and its default error handler answers 500
handlerThrows(q) ==
    Finished(json(Logged(q, <<"throw">>), 500, "Internal Server Error"))

\* `fs.unlinkSync(req.file.path); return res.status(st).json({error})`:
\* unlinkSync is not guarded here and throws ENOENT when the file is gone
rejectWithUnlink(q, fs, st, err) ==
    IF q.filePath \in fs
    THEN [req |-> Finished(json(Logged(q, <<"reject", "unlinkInput">>), st, err)),
          files |-> fs \ {q.filePath}]
    ELSE [req |-> handlerThrows(Logged(q, <<"reject">>)), files |-> fs]

reject(q, fs, st, err) ==
    [req |-> Finished(json(Logged(q, <<"reject">>), st, err)), files |-> fs]

NotInstalled == "FFmpeg is not installed on the server"

\* the tool-availability branch that opens both handlers
toolMissing(q, fs) ==
    IF q.hasFile THEN rejectWithUnlink(q, fs, 500, NotInstalled)
    ELSE reject(q, fs, 500, NotInstalled)

\* spawn as it would be if the handler answered right after starting the
\* child instead of waiting for 'close'
spawnRespondsEarly(q, inputPath, outputPath) ==
    [q EXCEPT !.pc = "running", !.inputPath = inputPath,
              !.outputPath = outputPath, !.spawns = @ + 1,
              !.status = 200, !.headersSent = TRUE, !.responses = @ + 1,
              !.log = @ \o <<"validate", "invoke", "respond">>]

\* const ffmpeg = spawn('ffmpeg', args) and the registration of the handlers
spawn(q, inputPath, outputPath) ==
    [q EXCEPT !.pc = "running", !.inputPath = inputPath,
              !.outputPath = outputPath, !.spawns = @ + 1,
              !.log = @ \o <<"validate", "invoke">>]

\* ---------------------------------------------------------------- upload
\* upload.single('video'): multer stores the file part, if there is one, under
\* uniqueName in TEMP_DIR and fills req.file and req.body; t is what
\* Date.now() returns.  Requests are numbered in their order of arrival.
Upload(r, in, t) ==
    /\ serverUp
    /\ req[r].pc = "idle"
    /\ \A r0 \in 1..(r - 1) : req[r0].pc # "idle"
    /\ t \in DateNow
    /\ ~in.hasFile => t = now
    /\ now' = t
    /\ LET p == IF in.hasFile THEN uniqueName(t, in.originalname) ELSE NoPath
       IN  /\ files' = IF in.hasFile THEN files \cup {p} ELSE files
           /\ req' = [req EXCEPT ![r] =
                        [@ EXCEPT !.pc = "uploaded", !.kind = in.kind,
                                  !.hasFile = in.hasFile,
                                  !.originalname = in.originalname,
                                  !.filePath = p, !.format = in.format,
                                  !.startTime = in.startTime,
                                  !.endTime = in.endTime]]
    /\ UNCHANGED <<client, proc, reply, ffmpegAvailable, serverUp>>

\* -------------------------------------------------------- /api/convert
\* const args = ['-i', inputPath, '-y', ...codec, outputPath]
convertArgs(inputPath, codec, outputPath) ==
    <<"-i", inputPath, "-y">> \o codec \o <<outputPath>>

convertHandler(q, fs, t, avail) ==
    IF ~avail THEN toolMissing(q, fs)
    ELSE IF ~q.hasFile THEN reject(q, fs, 400, "No video file provided")
    ELSE LET targetFormat == q.format
             F == FormatsGet(targetFormat)
         IN  IF ~F.truthy THEN rejectWithUnlink(q, fs, 400, "Invalid format")
             ELSE IF ~F.iterable
             THEN [req |-> handlerThrows(Logged(q, <<"validate">>)), files |-> fs]
             ELSE LET outputPath == convertOutputPath(t, q.originalname, F.ext)
                  IN  [req |-> [spawn(q, q.filePath, outputPath) EXCEPT
                                  !.args = convertArgs(q.filePath, F.codec,
                                                       outputPath)],
                       files |-> fs]

\* t is what Date.now() returns if the handler gets to call it
Convert(r, t) ==
    /\ serverUp
    /\ req[r].pc = "uploaded"
    /\ req[r].kind = "convert"
    /\ t \in DateNow
    /\ LET res == convertHandler(req[r], files, t, ffmpegAvailable)
       IN  /\ res.req.pc # "running" => t = now
           /\ req' = [req EXCEPT ![r] = res.req]
           /\ files' = res.files
    /\ now' = t
    /\ UNCHANGED <<client, proc, reply, ffmpegAvailable, serverUp>>

\* ----------------------------------------------------------- /api/clip
\* req.body.format || 'mp4'
formatOrDefault(f) == IF f = undefinedField \/ f = "" THEN "mp4" ELSE f

\* isNaN(endTime) || endTime <= startTime
invalidRange(startTime, endTime) ==
    isNaN(endTime) \/ endTime.val <= startTime.val

\* the arguments as they would be if -t were given the end offset
clipArgsToEnd(startTime, endTime, inputPath, codec, outputPath) ==
    <<"-ss", numberToString(startTime), "-i", inputPath,
      "-t", numberToString(endTime), "-y">>
    \o codec \o <<"-avoid_negative_ts", "make_zero", outputPath>>

\* const duration = endTime - startTime; const args = ['-ss', ..., outputPath]
clipArgs(startTime, endTime, inputPath, codec, outputPath) ==
    <<"-ss", numberToString(startTime), "-i", inputPath,
      "-t", numberToString(Num(endTime.val - startTime.val)), "-y">>
    \o codec \o <<"-avoid_negative_ts", "make_zero", outputPath>>

clipHandler(q, fs, t, avail) ==
    IF ~avail THEN toolMissing(q, fs)
    ELSE IF ~q.hasFile THEN reject(q, fs, 400, "No video file provided")
    ELSE LET targetFormat == formatOrDefault(q.format)
             startTime == OrZero(parseFloat(q.startTime))
             endTime == parseFloat(q.endTime)
             F == FormatsGet(targetFormat)
         IN  IF ~F.truthy THEN rejectWithUnlink(q, fs, 400, "Invalid format")
             ELSE IF invalidRange(startTime, endTime)
             THEN rejectWithUnlink(q, fs, 400, "Invalid time range")
             ELSE IF ~F.iterable
             THEN [req |-> handlerThrows(Logged(q, <<"validate">>)), files |-> fs]
             ELSE LET outputPath == clipOutputPath(t, q.originalname, startTime,
                                                   endTime, F.ext)
                  IN  [req |-> [spawn(q, q.filePath, outputPath) EXCEPT
                                  !.clipStart = startTime.val,
                                  !.clipEnd = endTime.val,
                                  !.args = clipArgs(startTime, endTime, q.filePath,
                                                    F.codec, outputPath)],
                       files |-> fs]

\* t is what Date.now() returns if the handler gets to call it
Clip(r, t) ==
    /\ serverUp
    /\ req[r].pc = "uploaded"
    /\ req[r].kind = "clip"
    /\ t \in DateNow
    /\ LET res == clipHandler(req[r], files, t, ffmpegAvailable)
       IN  /\ res.req.pc # "running" => t = now
           /\ req' = [req EXCEPT ![r] = res.req]
           /\ files' = res.files
    /\ now' = t
    /\ UNCHANGED <<client, proc, reply, ffmpegAvailable, serverUp>>

\* ------------------------------------------------------ the child process
\* exit codes of a child that ran; the code 'close' carries after a failed
\* spawn is the negative errno (ENOENT)
ExitCodes == {0, 1}
SpawnFailCode == -2

\* ffmpeg creates (or, with -y, overwrites) its output file while it runs
FfmpegWritesOutput(r) ==
    /\ serverUp
    /\ req[r].pc = "running"
    /\ files' = files \cup {req[r].outputPath}
    /\ UNCHANGED <<client, proc, reply, ffmpegAvailable, serverUp, now, req>>

\* ffmpeg.stderr.on('data'): the chunk is appended to what was captured
FfmpegStderr(r, k) ==
    /\ serverUp
    /\ req[r].pc = "running"
    /\ req[r].chunks < MaxChunks
    /\ req' = [req EXCEPT ![r].stderr = appendChunk(@, k), ![r].chunks = @ + 1]
    /\ UNCHANGED <<client, proc, reply, ffmpegAvailable, serverUp, now, files>>

failedMessage(kind) ==
    IF kind = "convert" THEN "Conversion failed" ELSE "Clip creation failed"
startFailedMessage(kind) ==
    IF kind = "convert" THEN "Failed to start conversion"
    ELSE "Failed to start clip creation"

unlinkInputTag(q, fs) ==
    IF q.inputPath \in fs THEN "unlinkInput" ELSE "unlinkInput:ENOENT"

\* closeFiles as it would be if 'close' cleaned the input up only on failure
closeFilesKeepInput(q, fs, code) ==
    IF code # 0 THEN tryUnlink(tryUnlink(fs, q.inputPath), q.outputPath)
    ELSE fs

\* the files left by ffmpeg.on('close'): the input is unlinked first, the
\* output only when the code is not 0
closeFiles(q, fs, code) ==
    IF code # 0 THEN tryUnlink(tryUnlink(fs, q.inputPath), q.outputPath)
    ELSE tryUnlink(fs, q.inputPath)

\* ffmpeg.on('close', code): writing a response after the headers were sent
\* throws ERR_HTTP_HEADERS_SENT inside the event callback, which nothing
\* catches (crash)
closeHandler(q, fs, code) ==
    LET q1 == [Logged(q, <<"close", unlinkInputTag(q, fs)>>)
                 EXCEPT !.exitCode = code]
    IN  IF q.headersSent
        THEN [req |-> [q1 EXCEPT !.pc = "crashed", !.lateWrites = @ + 1],
              files |-> closeFiles(q, fs, code), crash |-> TRUE]
        ELSE IF code # 0
        THEN [req |-> Finished(json(
                        [q1 EXCEPT !.consoleError = sliceLast(q.stderr, LogChars),
                                   !.details = failureDetails(q.stderr)],
                        500, failedMessage(q.kind))),
              files |-> closeFiles(q, fs, code), crash |-> FALSE]
        ELSE [req |-> [Logged(q1, <<"stream">>) EXCEPT !.pc = "streaming"],
              files |-> closeFiles(q, fs, code), crash |-> FALSE]

\* 'close' is emitted when the child has exited, and also after 'error' when
\* the spawn failed
Close(r, code) ==
    /\ serverUp
    /\ \/ req[r].pc = "running" /\ code \in ExitCodes
       \/ req[r].pc = "errored" /\ code = SpawnFailCode
    /\ LET res == closeHandler(req[r], files, code)
       IN  /\ req' = [req EXCEPT ![r] = res.req]
           /\ files' = res.files
           /\ serverUp' = ~res.crash
    /\ UNCHANGED <<client, proc, reply, ffmpegAvailable, now>>

\* ffmpeg.on('error'): the spawn failed
errorHandler(q, fs) ==
    LET q1 == [Logged(q, <<"error", unlinkInputTag(q, fs)>>)
                 EXCEPT !.pc = "errored"]
    IN  [req |-> IF ~q.headersSent
                 THEN json(q1, 500, startFailedMessage(q.kind)) ELSE q1,
         files |-> tryUnlink(fs, q.inputPath)]

Error(r) ==
    /\ serverUp
    /\ req[r].pc = "running"
    /\ req[r].outputPath \notin files
    /\ LET res == errorHandler(req[r], files)
       IN  /\ req' = [req EXCEPT ![r] = res.req]
           /\ files' = res.files
    /\ UNCHANGED <<client, proc, reply, ffmpegAvailable, serverUp, now>>

\* ----------------------------------------------------------- res.download
DownloadOutcomes == {"sent", "errorBeforeHeaders", "errorAfterHeaders"}

\* what express has done by the time it calls back: nothing before the
\* headers, or a 200 whose body was sent in full or in part
delivered(q, outcome) ==
    IF outcome = "errorBeforeHeaders" THEN [q EXCEPT !.delivery = outcome]
    ELSE [q EXCEPT !.delivery = outcome, !.status = 200,
                   !.headersSent = TRUE, !.responses = @ + 1]

\* the callback as it would be if it reported every error, sent or not
downloadCallbackAlwaysReports(q, fs, outcome) ==
    LET err == outcome # "sent"
        q1 == Logged(delivered(q, outcome), <<"streamEnd", "unlinkOutput">>)
    IN  [req |-> Finished(IF err THEN json(q1, 500, "Download failed") ELSE q1),
         files |-> tryUnlink(fs, q.outputPath)]

\* the callback of res.download(outputPath, outputName, cb): the output is
\* unlinked, then `if (err && !res.headersSent)` answers 500
downloadCallback(q, fs, outcome) ==
    LET err == outcome # "sent"
        q1 == Logged(delivered(q, outcome), <<"streamEnd", "unlinkOutput">>)
    IN  [req |-> Finished(IF err /\ ~q1.headersSent
                          THEN json(q1, 500, "Download failed") ELSE q1),
         files |-> tryUnlink(fs, q.outputPath)]

\* the stream ends: the file was sent, or sending failed before or after the
\* headers went out (a missing file fails before the headers)
Download(r, outcome) ==
    /\ serverUp
    /\ req[r].pc = "streaming"
    /\ outcome # "errorBeforeHeaders" => req[r].outputPath \in files
    /\ LET res == downloadCallback(req[r], files, outcome)
       IN  /\ req' = [req EXCEPT ![r] = res.req]
           /\ files' = res.files
    /\ UNCHANGED <<client, proc, reply, ffmpegAvailable, serverUp, now>>

\* ---------------------------------------------------------------- startup
\* parseInt(s): leading blanks are skipped, then an optional sign and the
\* longest prefix of digits are the value and the rest is ignored; no digit
\* gives NaN.  Whole numbers (not tenths); the texts below carry no 0x prefix.
parseInt(s) ==
    LET t == TrimStart(s)
        neg == t # <<>> /\ Head(t) = "-"
        signed == t # <<>> /\ Head(t) \in {"-", "+"}
        u == IF signed THEN Tail(t) ELSE t
        ip == DigitPrefix(u)
    IN  IF ip = <<>> THEN NaN
        ELSE Num(IF neg THEN 0 - DigitsValue(ip) ELSE DigitsValue(ip))

\* /^\d+$/.test(arg)
allDigits(arg) == arg # <<>> /\ \A i \in 1..Len(arg) : arg[i] \in Digits

startsWith(s, prefix) ==
    Len(s) >= Len(prefix) /\ SubSeq(s, 1, Len(prefix)) = prefix

\* the position of the first '=' of s, Len(s) + 1 when there is none
FirstEq(s) ==
    LET I == {i \in 1..Len(s) : s[i] = "="}
    IN  IF I = {} THEN Len(s) + 1 ELSE CHOOSE i \in I : \A j \in I : i <= j

\* arg.split('=')[1], for an arg that contains '='
splitEq1(arg) ==
    LET rest == Drop(arg, FirstEq(arg))
    IN  SubSeq(rest, 1, FirstEq(rest) - 1)

PortEq == <<"-", "-", "p", "o", "r", "t", "=">>
PortFlags == {<<"-", "p">>, <<"-", "-", "p", "o", "r", "t">>}
HelpFlags == {<<"-", "h">>, <<"-", "-", "h", "e", "l", "p">>}

\* the three tests of the loop body of getPort, for args[i]
isBareNumber(args, i) == allDigits(args[i])
isPortEq(args, i) == startsWith(args[i], PortEq)
isPortFlag(args, i) ==
    /\ args[i] \in PortFlags
    /\ i + 1 <= Len(args) /\ args[i + 1] # <<>> /\ allDigits(args[i + 1])

\* parseInt(process.env.PORT) || 3000: NaN and 0 are falsy
envPort(env) ==
    LET e == parseInt(env)
    IN  IF e.nan \/ e.val = 0 THEN Num(DefaultPort) ELSE e

\* the for loop of getPort from index i on, then the fallback
RECURSIVE getPortFrom(_, _, _)
getPortFrom(args, i, env) ==
    IF i > Len(args) THEN envPort(env)
    ELSE IF isBareNumber(args, i) THEN parseInt(args[i])
    ELSE IF isPortEq(args, i) THEN parseInt(splitEq1(args[i]))
    ELSE IF isPortFlag(args, i) THEN parseInt(args[i + 1])
    ELSE getPortFrom(args, i + 1, env)

\* getPort as it would be if the kind of an argument decided, a bare number
\* before --port=N before -p N, wherever they stand
getPortByKind(args, env) ==
    LET I == 1..Len(args)
        Bare == {i \in I : isBareNumber(args, i)}
        Eq == {i \in I : isPortEq(args, i)}
        Flag == {i \in I : isPortFlag(args, i)}
        Least(S) == CHOOSE i \in S : \A j \in S : i <= j
    IN  IF Bare # {} THEN parseInt(args[Least(Bare)])
        ELSE IF Eq # {} THEN parseInt(splitEq1(args[Least(Eq)]))
        ELSE IF Flag # {} THEN parseInt(args[Least(Flag) + 1])
        ELSE envPort(env)

getPort(args, env) == getPortFrom(args, 1, env)

\* process.argv.includes('--help') || process.argv.includes('-h')
helpRequested(args) == \E i \in 1..Len(args) : args[i] \in HelpFlags

MinPort == 1
MaxPort == 65535

\* the range test as it would be if only the upper end were checked
portOutOfRangeUpperOnly(PORT) == ~PORT.nan /\ PORT.val > MaxPort

\* PORT < 1 || PORT > 65535: both comparisons are false for NaN
portOutOfRange(PORT) ==
    ~PORT.nan /\ (PORT.val < MinPort \/ PORT.val > MaxPort)

\* app.listen(PORT): net.Server.listen validates the port and throws
\* ERR_SOCKET_BAD_PORT for a number that is not an integer in 0..65535; port 0
\* binds a port the system picks
listenThrows(PORT) == PORT.nan \/ PORT.val < 0 \/ PORT.val > MaxPort

\* entries a previous run left in TEMP_DIR
Leftover == {<<"upload_", 0, NameAvi>>, <<"out_", 0, <<"videoLab_", "a", ".", "m", "p", "4">>>>}

\* the purge as it would be if it were skipped
purgeSkipped(fs, locked) == fs

\* readdirSync(TEMP_DIR).forEach(file => { try { unlinkSync } catch {} }):
\* every entry is unlinked, except those whose unlink fails
purge(fs, locked) == {f \in fs : f \in locked}

\* GET /api/ffmpeg-status as it would be if it reported a fixed answer
statusRouteFixed(avail) == <<TRUE>>

\* res.json({ available: ffmpegAvailable })
statusRoute(avail) == <<avail>>

\* the listing as it would be if only the video formats were listed
formatsRouteVideoOnly(formats) ==
    {f \in DOMAIN formats : formats[f].codec[1] # "-vn"}

\* res.json(Object.keys(FORMATS)): the own keys of the object
formatsRoute(formats) == DOMAIN formats

\* the top-level script of server.js, from the help test to app.listen; probe
\* says whether `ffmpeg -version` succeeds
startup(p, fs, probe) ==
    LET PORT == getPort(p.argv, p.env)
        resolved == [p EXCEPT !.resolved = TRUE, !.PORT = PORT]
        purged == [resolved EXCEPT !.purges = @ + 1]
    IN  IF helpRequested(p.argv)
        THEN [proc |-> [p EXCEPT !.phase = "exited", !.exitStatus = 0],
              files |-> fs, ffmpegAvailable |-> FALSE, listening |-> FALSE]
        ELSE IF portOutOfRange(PORT)
        THEN [proc |-> [resolved EXCEPT !.phase = "exited", !.exitStatus = 1],
              files |-> fs, ffmpegAvailable |-> FALSE, listening |-> FALSE]
        ELSE IF listenThrows(PORT)
        THEN [proc |-> [purged EXCEPT !.phase = "exited", !.exitStatus = 1],
              files |-> purge(fs, p.locked), ffmpegAvailable |-> probe,
              listening |-> FALSE]
        ELSE [proc |-> [purged EXCEPT !.phase = "listening"],
              files |-> purge(fs, p.locked), ffmpegAvailable |-> probe,
              listening |-> TRUE]

\* node server.js: the script runs to its end before any request is accepted
Boot ==
    /\ proc.phase = "boot"
    /\ \E probe \in BOOLEAN :
        LET res == startup(proc, files, probe)
        IN  /\ proc' = res.proc
            /\ files' = res.files
            /\ ffmpegAvailable' = res.ffmpegAvailable
            /\ serverUp' = res.listening
    /\ UNCHANGED <<client, now, req, reply>>

GetStatus ==
    /\ serverUp
    /\ reply' = [reply EXCEPT !.status = statusRoute(ffmpegAvailable)]
    /\ UNCHANGED <<client, ffmpegAvailable, serverUp, now, files, req, proc>>

GetFormats ==
    /\ serverUp
    /\ reply' = [reply EXCEPT !.formats = formatsRoute(FORMATS)]
    /\ UNCHANGED <<client, ffmpegAvailable, serverUp, now, files, req, proc>>

\* command lines and environments
ArgTexts ==
    {<<"8", "0">>, <<"0">>, <<"7", "0", "0", "0", "0">>,
     PortEq \o <<"9", "0">>, PortEq \o <<"x">>,
     <<"-", "p">>, <<"-", "-", "p", "o", "r", "t">>, <<"-", "h">>, <<"x">>}
MaxArgs == 2
\* local file entries the player creates in one run
MaxEntries == 2
\* subtitle files a FileReader is reading at the same time
MaxReads == 1
Argvs == UNION {[1..n -> ArgTexts] : n \in 0..MaxArgs}
EnvPorts == {Absent, <<"4", "0">>, <<"0">>, <<"a", "b", "c">>,
             <<"7", "0", "0", "0", "0">>, <<"-", "5">>}

\* ----------------------------------------------------------- the clip tab
Min(a, b) == IF a < b THEN a ELSE b
Max(a, b) == IF a > b THEN a ELSE b

\* the gap the handlers keep between the two ends, 0.5 s
MinClip == 5

\* str.split(':'): the pieces between the colons
RECURSIVE splitColon(_)
splitColon(str) ==
    LET I == {i \in 1..Len(str) : str[i] = ":"}
    IN  IF I = {} THEN <<str>>
        ELSE LET i == CHOOSE k \in I : \A j \in I : k <= j
             IN  <<SubSeq(str, 1, i - 1)>> \o splitColon(Drop(str, i))

\* a product or sum of numbers, NaN as soon as one of them is
Times(x, k) == IF x.nan THEN NaN ELSE Num(x.val * k)
Plus(x, y) == IF x.nan \/ y.nan THEN NaN ELSE Num(x.val + y.val)

\* parseTime(str): h:m:s, m:s or seconds
parseTime(str) ==
    LET parts == [i \in 1..Len(splitColon(str)) |-> parseFloat(splitColon(str)[i])]
    IN  IF Len(parts) = 3
        THEN Plus(Plus(Times(parts[1], 3600), Times(parts[2], 60)), parts[3])
        ELSE IF Len(parts) = 2 THEN Plus(Times(parts[1], 60), parts[2])
        ELSE OrZero(parseFloat(str))

\* handleFileSelect(file) for a video file: previewVideo.load() resets the
\* element and starts to load the file
HandleFileSelect ==
    /\ clipper' = [clipper EXCEPT !.selectedFile = TRUE, !.loading = TRUE,
                                  !.currentTime = 0]
    /\ UNCHANGED <<server, player, currentTab>>

\* onVideoLoaded(), 'loadedmetadata' of a preview of duration d: a position
\* set while the element was loading is clamped to the new duration
OnVideoLoaded(d) ==
    /\ clipper.loading
    /\ clipper' = [clipper EXCEPT !.loading = FALSE, !.video = TRUE,
                                  !.duration = d,
                                  !.startTime = 0, !.endTime = d,
                                  !.currentTime = Min(@, d)]
    /\ UNCHANGED <<server, player, currentTab>>

\* playback or seekToPosition moves the loaded preview to time t
ClipSeek(t) ==
    /\ clipper.video /\ ~clipper.loading
    /\ t \in 0..clipper.duration
    /\ clipper' = [clipper EXCEPT !.currentTime = t]
    /\ UNCHANGED <<server, player, currentTab>>

StartDrag(handle) ==
    /\ clipper.video
    /\ clipper' = [clipper EXCEPT !.isDragging = handle]
    /\ UNCHANGED <<server, player, currentTab>>

StopDrag ==
    /\ clipper.isDragging # "null"
    /\ clipper' = [clipper EXCEPT !.isDragging = "null"]
    /\ UNCHANGED <<server, player, currentTab>>

\* the start the drag would give if it only kept the start below the end
dragStartNoGap(c, time) == Max(0, Min(time, c.endTime))

\* this.startTime = Math.min(time, this.endTime - 0.5), then Math.max(0, .)
dragStart(c, time) == Max(0, Min(time, c.endTime - MinClip))

\* this.endTime = Math.max(time, this.startTime + 0.5), then
\* Math.min(this.duration, .)
dragEnd(c, time) == Min(c.duration, Max(time, c.startTime + MinClip))

\* onDrag(e): time = percent * duration with percent clamped to 0..1
OnDrag(time) ==
    /\ clipper.isDragging # "null"
    /\ time \in 0..clipper.duration
    /\ clipper' =
          IF clipper.isDragging = "start"
          THEN [clipper EXCEPT !.startTime = dragStart(clipper, time),
                               !.currentTime = dragStart(clipper, time)]
          ELSE [clipper EXCEPT !.endTime = dragEnd(clipper, time),
                               !.currentTime = dragEnd(clipper, time)]
    /\ UNCHANGED <<server, player, currentTab>>

\* onTimeInputChange(which) with the text the user typed into the input
OnTimeInputChange(which, text) ==
    /\ clipper.video
    /\ LET seconds == parseTime(text)
       IN  clipper' =
             IF isNaN(seconds) THEN clipper
             ELSE IF which = "start"
             THEN LET st == Max(0, Min(seconds.val, clipper.endTime - MinClip))
                  IN  [clipper EXCEPT !.startTime = st, !.currentTime = st]
             ELSE LET en == Min(clipper.duration,
                                Max(seconds.val, clipper.startTime + MinClip))
                  IN  [clipper EXCEPT !.endTime = en, !.currentTime = en]
    /\ UNCHANGED <<server, player, currentTab>>

\* markTime(which)
MarkTime(which) ==
    /\ clipper.video
    /\ clipper' =
          IF which = "start"
          THEN IF clipper.currentTime < clipper.endTime - MinClip
               THEN [clipper EXCEPT !.startTime = clipper.currentTime]
               ELSE clipper
          ELSE IF clipper.currentTime > clipper.startTime + MinClip
               THEN [clipper EXCEPT !.endTime = clipper.currentTime]
               ELSE clipper
    /\ UNCHANGED <<server, player, currentTab>>

\* createClip() up to xhr.send; a disabled button takes no click
CreateClip ==
    /\ clipper.selectedFile
    /\ ~clipper.startClipDisabled
    /\ clipper' = [clipper EXCEPT !.startClipDisabled = TRUE,
                                  !.progressShown = TRUE, !.xhr = "sent"]
    /\ UNCHANGED <<server, player, currentTab>>

\* the load listener of createClip's request: 200 starts the download and
\* arms the timer; any other status throws inside the listener, where the
\* try block of createClip, long left, catches nothing
ClipLoad(status) ==
    /\ clipper.xhr = "sent"
    /\ clipper' = [clipper EXCEPT
                       !.xhr = IF status = 200 THEN "timer" ELSE "none"]
    /\ UNCHANGED <<server, player, currentTab>>

\* the error listener of createClip's request
ClipError ==
    /\ clipper.xhr = "sent"
    /\ clipper' = [clipper EXCEPT !.xhr = "none", !.progressShown = FALSE,
                                  !.startClipDisabled = FALSE]
    /\ UNCHANGED <<server, player, currentTab>>

\* the timer the load listener armed
ClipTimer ==
    /\ clipper.xhr = "timer"
    /\ clipper' = [clipper EXCEPT !.xhr = "none", !.progressShown = FALSE,
                                  !.startClipDisabled = FALSE]
    /\ UNCHANGED <<server, player, currentTab>>

\* durations of the videos the user opens, and the texts typed as times
Durations == {3, 5, 12}
ClipTimes == 0..12
TimeTexts ==
    {<<"a", "b", "c">>, <<"-", "1">>, <<"0", ":", "0", "0", ".", "2">>,
     <<"0", ":", "0", "1">>, <<"1", ":", "x">>, <<"0", ":", "0", ":", "1">>,
     <<"9", "9">>}

\* ------------------------------------------------------------ the player
\* str.toLowerCase(), for the letters the names below use
lowerChar(c) ==
    CASE c = "S" -> "s" [] c = "R" -> "r" [] c = "T" -> "t" [] c = "V" -> "v"
      [] OTHER -> c
toLowerCase(str) == [i \in 1..Len(str) |-> lowerChar(str[i])]

\* filename.split('.').pop().toLowerCase(): what follows the last '.', the
\* whole name when it has none
getExtension(filename) == toLowerCase(Drop(filename, LastDot(filename)))

\* this.nativeFormats.includes(ext)
nativeFormats ==
    {<<"m", "p", "4">>, <<"w", "e", "b", "m">>, <<"o", "g", "g">>,
     <<"m", "p", "3">>, <<"w", "a", "v">>, <<"m", "4", "a">>}
isNativeFormat(filename) == getExtension(filename) \in nativeFormats

\* removeSubtitleTrack(): the recorded track and every other <track> go
removeSubtitleTrack(p) ==
    [p EXCEPT !.currentSubtitleTrack = <<>>, !.tracks = <<>>]

\* addSubtitleTrack(vttContent, filename)
addSubtitleTrack(p, filename) ==
    [removeSubtitleTrack(p) EXCEPT
        !.tracks = <<filename>>, !.currentSubtitleTrack = <<filename>>,
        !.subtitlesEnabled = TRUE]

\* the extensions reader.onload of loadSubtitleFile converts
convertible(ext) ==
    \/ ext = <<"s", "r", "t">>
    \/ ext = <<"v", "t", "t">>
    \/ ext = <<"s", "u", "b">> \/ ext = <<"a", "s", "s">>

\* loadSubtitleFile(file): reader.readAsText(file) starts the read; the read
\* is noted together with the source the video had when the file was chosen
LoadSubtitleFile(name) ==
    /\ \A r \in player.reading : r.name # name
    /\ Cardinality(player.reading) < MaxReads
    /\ player' = [player EXCEPT
                      !.reading = @ \cup {[name |-> name, src |-> player.src]}]
    /\ UNCHANGED <<server, clipper, currentTab>>

\* reader.onload of loadSubtitleFile
SubtitleRead(name) ==
    /\ \E r \in player.reading : r.name = name
    /\ LET p == [player EXCEPT !.reading = {r \in @ : r.name # name}]
       IN  player' = IF convertible(getExtension(name))
                     THEN addSubtitleTrack(p, name)
                     ELSE [p EXCEPT !.alerts = (@ + 1) % 2]
    /\ UNCHANGED <<server, clipper, currentTab>>

\* toggleSubtitles()
ToggleSubtitles ==
    /\ player.currentSubtitleTrack # <<>>
    /\ player' = [player EXCEPT !.subtitlesEnabled = ~@]
    /\ UNCHANGED <<server, clipper, currentTab>>

\* localFiles[index], with the index counted from 0 as the code counts it
fileAt(p, index) == p.localFiles[index + 1]

\* hideConvertPrompt()
hideConvertPrompt(p) == [p EXCEPT !.promptShown = FALSE]

\* video.src = url; video.load(); video.play(): load() puts the rate back to
\* the default rate, play() clears paused
startPlaying(p, url) ==
    [p EXCEPT !.src = url, !.loadState = "loading", !.paused = FALSE,
              !.playbackRate = DefaultSpeed]

\* playFile(index)
playFile(p, index) ==
    IF index < 0 \/ index >= Len(p.localFiles) THEN p
    ELSE LET file == fileAt(p, index)
             q == removeSubtitleTrack(
                      hideConvertPrompt([p EXCEPT !.currentIndex = index]))
         IN  startPlaying(q, <<file.id,
                 IF file.convertedUrl THEN "convertedUrl" ELSE "url">>)

\* playConvertedFile(file)
playConvertedFile(p, id) == startPlaying(p, <<id, "convertedUrl">>)

\* playNextOrShowEmpty()
playNextOrShowEmpty(p) ==
    IF p.currentIndex < Len(p.localFiles) - 1
    THEN playFile(p, p.currentIndex + 1)
    ELSE p

\* the filter of handleFiles: the names the regular expression accepts
mediaExtensions ==
    {<<"m", "p", "4">>, <<"w", "e", "b", "m">>, <<"o", "g", "g">>,
     <<"m", "k", "v">>, <<"m", "o", "v">>, <<"w", "m", "v">>,
     <<"f", "l", "v">>, <<"m", "4", "v">>, <<"m", "p", "3">>,
     <<"w", "a", "v">>, <<"f", "l", "a", "c">>, <<"m", "4", "a">>,
     <<"a", "a", "c">>}
isMediaFile(name) == getExtension(name) \in mediaExtensions

\* the forEach of handleFiles: a file the list already holds is skipped
RECURSIVE pushFiles(_, _)
pushFiles(p, names) ==
    IF names = <<>> THEN p
    ELSE LET name == Head(names)
             known == \E i \in 1..Len(p.localFiles) :
                          p.localFiles[i].name = name
             q == IF known \/ ~isMediaFile(name) THEN p
                  ELSE [p EXCEPT
                           !.localFiles = Append(@,
                               [id |-> p.nextId, name |-> name,
                                convertedUrl |-> FALSE]),
                           !.nextId = @ + 1]
         IN  pushFiles(q, Tail(names))

\* handleFiles(files)
handleFiles(p, names) ==
    IF \A i \in 1..Len(names) : ~isMediaFile(names[i])
    THEN [p EXCEPT !.alerts = (@ + 1) % 2]
    ELSE playFile(pushFiles(p, names), Len(p.localFiles))

\* removeFile(index) without the else branch
removeFileKeepIndex(p, index) ==
    IF index < 0 \/ index >= Len(p.localFiles) THEN p
    ELSE LET rest == [i \in 1..(Len(p.localFiles) - 1) |->
                         IF i <= index THEN p.localFiles[i]
                         ELSE p.localFiles[i + 1]]
             q == [p EXCEPT !.localFiles = rest]
         IN  IF p.currentIndex = index
             THEN [removeSubtitleTrack(hideConvertPrompt(q)) EXCEPT
                      !.src = NoSrc, !.loadState = "empty",
                      !.currentIndex = -1]
             ELSE q

\* removeFile(index)
removeFile(p, index) ==
    IF index < 0 \/ index >= Len(p.localFiles) THEN p
    ELSE LET rest == [i \in 1..(Len(p.localFiles) - 1) |->
                         IF i <= index THEN p.localFiles[i]
                         ELSE p.localFiles[i + 1]]
             q == [p EXCEPT !.localFiles = rest]
         IN  IF p.currentIndex = index
             THEN [removeSubtitleTrack(hideConvertPrompt(q)) EXCEPT
                      !.src = NoSrc, !.loadState = "empty",
                      !.currentIndex = -1]
             ELSE IF p.currentIndex > index
             THEN [q EXCEPT !.currentIndex = @ - 1]
             ELSE q

\* the elements of the player tab take clicks while that tab is shown
PlayerTabShown == currentTab = "player"

\* the file input or a drop hands files to handleFiles
HandleFiles(names) ==
    /\ PlayerTabShown
    /\ player.nextId + Len(names) <= MaxEntries + 1
    /\ player' = handleFiles(player, names)
    /\ UNCHANGED <<server, clipper, currentTab>>

\* a click on an entry of the file list
PlayFile(index) ==
    /\ PlayerTabShown
    /\ index \in 0..(Len(player.localFiles) - 1)
    /\ player' = playFile(player, index)
    /\ UNCHANGED <<server, clipper, currentTab>>

\* a click on the remove button of an entry
RemoveFile(index) ==
    /\ PlayerTabShown
    /\ index \in 0..(Len(player.localFiles) - 1)
    /\ player' = removeFile(player, index)
    /\ UNCHANGED <<server, clipper, currentTab>>

\* applyPreferencesToVideo()
applyPreferencesToVideo(p) == [p EXCEPT !.playbackRate = p.speed]

\* the video's loadedmetadata event: onVideoLoaded()
OnPlayerVideoLoaded ==
    /\ player.loadState = "loading"
    /\ player' = hideConvertPrompt(applyPreferencesToVideo(
                      [player EXCEPT !.loadState = "loaded"]))
    /\ UNCHANGED <<server, clipper, currentTab>>

\* the entry the player holds under an id, <<>> when it holds none
entryOf(p, id) ==
    IF \E i \in 1..Len(p.localFiles) : p.localFiles[i].id = id
    THEN <<CHOOSE i \in 1..Len(p.localFiles) : p.localFiles[i].id = id>>
    ELSE <<>>

\* onVideoError(e)
onVideoError(p) ==
    IF p.currentIndex < 0 \/ p.isConverting THEN p
    ELSE LET file == fileAt(p, p.currentIndex)
         IN  IF ~isNativeFormat(file.name)
             THEN [p EXCEPT !.promptShown = TRUE, !.promptFor = file.id,
                            !.convertBtnDisabled = FALSE]
             ELSE p

\* the video's error event
OnVideoError ==
    /\ player.loadState = "loading"
    /\ player' = onVideoError([player EXCEPT !.loadState = "error"])
    /\ UNCHANGED <<server, clipper, currentTab>>

\* the video's ended event: onVideoEnded(); the element stops at the end of
\* the file, and browsers differ in whether it then counts as paused
OnVideoEnded ==
    /\ player.loadState = "loaded"
    /\ ~player.paused
    /\ \E nowPaused \in BOOLEAN :
           LET p == [player EXCEPT !.paused = nowPaused]
           IN  player' = IF p.currentIndex < Len(p.localFiles) - 1
                         THEN playFile(p, p.currentIndex + 1)
                         ELSE p
    /\ UNCHANGED <<server, clipper, currentTab>>

\* togglePlay()
togglePlay(p) ==
    IF p.src = NoSrc THEN p ELSE [p EXCEPT !.paused = ~@]

\* the keydown handler of the document, keys ' ' and 'k'
KeyTogglePlay ==
    /\ player' = togglePlay(player)
    /\ UNCHANGED <<server, clipper, currentTab>>

\* a click on the play button or on the video
ClickTogglePlay ==
    /\ PlayerTabShown
    /\ player' = togglePlay(player)
    /\ UNCHANGED <<server, clipper, currentTab>>

\* the click handler of convertForPlayBtn: convertForPlayback(file) up to
\* xhr.send
ConvertForPlayback ==
    /\ PlayerTabShown
    /\ player.promptShown /\ ~player.convertBtnDisabled
    /\ player' = [player EXCEPT
                      !.isConverting = TRUE, !.convertBtnDisabled = TRUE,
                      !.conversions = @ \cup {<<player.promptFor, "sent">>}]
    /\ UNCHANGED <<server, clipper, currentTab>>

\* the click handler of skipConvertBtn
SkipConvert ==
    /\ PlayerTabShown
    /\ player.promptShown
    /\ player' = playNextOrShowEmpty(hideConvertPrompt(player))
    /\ UNCHANGED <<server, clipper, currentTab>>

\* the statuses the server answers a conversion with
HttpStatuses == {200, 400, 500}

\* the load listener of convertForPlayback's request: 200 stores the
\* converted URL in the entry and arms the timer; any other status throws
\* inside the listener, where nothing catches it
ConversionLoad(id, status) ==
    /\ <<id, "sent">> \in player.conversions
    /\ LET p == [player EXCEPT !.conversions = @ \ {<<id, "sent">>}]
           at == entryOf(p, id)
       IN  player' =
               IF status = 200
               THEN [p EXCEPT
                        !.conversions = @ \cup {<<id, "timer">>},
                        !.localFiles =
                            IF at = <<>> THEN @
                            ELSE [@ EXCEPT ![at[1]].convertedUrl = TRUE]]
               ELSE p
    /\ UNCHANGED <<server, clipper, currentTab>>

\* the error listener of convertForPlayback's request
ConversionError(id) ==
    /\ <<id, "sent">> \in player.conversions
    /\ player' = [hideConvertPrompt(player) EXCEPT
                      !.conversions = @ \ {<<id, "sent">>},
                      !.alerts = (@ + 1) % 2,
                      !.isConverting = FALSE]
    /\ UNCHANGED <<server, clipper, currentTab>>

\* the timer the load listener armed
ConversionTimer(id) ==
    /\ <<id, "timer">> \in player.conversions
    /\ LET p == [player EXCEPT !.conversions = @ \ {<<id, "timer">>}]
       IN  player' = [playConvertedFile(hideConvertPrompt(p), id) EXCEPT
                         !.isConverting = FALSE]
    /\ UNCHANGED <<server, clipper, currentTab>>

\* TabManager.switchTab(tabName)
SwitchTab(tabName) ==
    /\ currentTab' = tabName
    /\ player' = IF tabName # "player"
                 THEN [player EXCEPT !.paused = TRUE]
                 ELSE player
    /\ UNCHANGED <<server, clipper>>

TabNames == {"player", "clip", "convert"}

\* the media files the user picks
NameMp4 == <<"b", ".", "m", "p", "4">>
MediaNames == {NameMkv, NameMp4}
FileLists ==
    {<<NameMkv>>, <<NameMp4>>, <<NameMkv, NameMp4>>, <<NameMp4, NameMkv>>,
     <<<<"a", ".", "t", "x", "t">>>>}
EntryIds == 1..MaxEntries

\* setPlaybackSpeed(speed) without the clamp
setPlaybackSpeedUnclamped(p, speed) ==
    [p EXCEPT !.speed = speed, !.playbackRate = speed]

\* setPlaybackSpeed(speed, fromSlider)
setPlaybackSpeed(p, speed) ==
    LET clamped == Max(MinSpeed, Min(MaxSpeed, speed))
    IN  [p EXCEPT !.speed = clamped, !.playbackRate = clamped]

\* the change listener of the speed dropdown
ChangeSpeed(value) ==
    /\ PlayerTabShown
    /\ player' = setPlaybackSpeed(player, value)
    /\ UNCHANGED <<server, clipper, currentTab>>

\* the input listener of the speed slider
SlideSpeed(value) ==
    /\ PlayerTabShown
    /\ player' = setPlaybackSpeed(player, value)
    /\ UNCHANGED <<server, clipper, currentTab>>

\* adjustSpeed(delta), from the keys ',' and '.'
AdjustSpeed(delta) ==
    /\ player' = setPlaybackSpeed(player, player.speed + delta)
    /\ UNCHANGED <<server, clipper, currentTab>>

\* the Backspace key and a double click on the slider: setPlaybackSpeed(1)
ResetSpeed ==
    /\ player' = setPlaybackSpeed(player, DefaultSpeed)
    /\ UNCHANGED <<server, clipper, currentTab>>

\* loadPreferences(): the speed an earlier visit saved replaces the default
loadPreferences(p, saved) ==
    IF saved = <<>> THEN p ELSE [p EXCEPT !.speed = saved[1]]

\* what localStorage holds under videolab_prefs: nothing, or a saved speed
SavedPreferences == {<<>>, <<50>>, <<200>>}

\* the values the dropdown and the slider hand over
SpeedValues == {5, 25, 100, 150, 400, 450}

\* the subtitle files the user picks
SubtitleNames ==
    {<<"a", ".", "s", "r", "t">>, <<"a", ".", "V", "T", "T">>,
     <<"a", ".", "a", "s", "s">>, <<"a", ".", "s", "s", "a">>,
     <<"a", ".", "s", "u", "b">>, <<"a", ".", "t", "x", "t">>}

\* --------------------------------------------------------- specifications
\* concurrent requests
Next ==
    \/ \E r \in Requests :
        \/ \E in \in ConcInputs, t \in 1..MaxClock : Upload(r, in, t)
        \/ \E t \in 1..MaxClock : Convert(r, t)
        \/ \E t \in 1..MaxClock : Clip(r, t)
        \/ FfmpegWritesOutput(r)
        \/ \E code \in ExitCodes \cup {SpawnFailCode} : Close(r, code)
        \/ Error(r)
        \/ \E outcome \in DownloadOutcomes : Download(r, outcome)

Spec == Init /\ [][Next]_vars

\* one request, every combination of the input fields
NextInputs ==
    \/ \E in \in AllInputs, t \in 1..MaxClock : Upload(1, in, t)
    \/ \E k \in ChunkSizes : FfmpegStderr(1, k)
    \/ GetFormats
    \/ \E t \in 1..MaxClock : Convert(1, t)
    \/ \E t \in 1..MaxClock : Clip(1, t)
    \/ FfmpegWritesOutput(1)
    \/ \E code \in ExitCodes \cup {SpawnFailCode} : Close(1, code)
    \/ Error(1)
    \/ \E outcome \in DownloadOutcomes : Download(1, outcome)

SpecInputs == Init /\ [][NextInputs]_vars

\* the start of the process, for every command line and environment
InitPort ==
    /\ ffmpegAvailable = FALSE
    /\ serverUp = FALSE
    /\ now = 1
    /\ files = {}
    /\ req = [r \in Requests |-> IdleReq]
    /\ proc \in {StartingProc(argv, env, {}) : argv \in Argvs, env \in EnvPorts}
    /\ reply = NoReply
    /\ ClientInit

SpecPort == InitPort /\ [][Boot]_vars

\* the start of the process over what a previous run left behind, then one
\* request and the two GET routes
BootArgvs == {<<>>, <<<<"8", "0">>>>, <<<<"0">>>>, <<<<"-", "h">>>>, <<PortEq \o <<"x">>>>}

InitBoot ==
    /\ ffmpegAvailable = FALSE
    /\ serverUp = FALSE
    /\ now = 1
    /\ files \in SUBSET Leftover
    /\ req = [r \in Requests |-> IdleReq]
    /\ proc \in {StartingProc(argv, Absent, locked) :
                    argv \in BootArgvs, locked \in SUBSET files}
    /\ reply = NoReply
    /\ ClientInit

NextBoot ==
    \/ Boot
    \/ GetStatus
    \/ GetFormats
    \/ \E in \in ConcInputs, t \in 1..MaxClock : Upload(1, in, t)
    \/ \E t \in 1..MaxClock : Convert(1, t)
    \/ \E t \in 1..MaxClock : Clip(1, t)
    \/ FfmpegWritesOutput(1)
    \/ \E code \in ExitCodes \cup {SpawnFailCode} : Close(1, code)
    \/ Error(1)
    \/ \E outcome \in DownloadOutcomes : Download(1, outcome)

SpecBoot == InitBoot /\ [][NextBoot]_vars

\* the clip tab: selection of the range
NextClipper ==
    \/ HandleFileSelect
    \/ \E d \in Durations : OnVideoLoaded(d)
    \/ \E t \in ClipTimes : ClipSeek(t)
    \/ \E handle \in {"start", "end"} : StartDrag(handle)
    \/ StopDrag
    \/ \E time \in ClipTimes : OnDrag(time)
    \/ \E which \in {"start", "end"}, text \in TimeTexts :
          OnTimeInputChange(which, text)
    \/ \E which \in {"start", "end"} : MarkTime(which)
    \/ CreateClip
    \/ \E status \in HttpStatuses : ClipLoad(status)
    \/ ClipError
    \/ ClipTimer

SpecClipper == Init /\ [][NextClipper]_vars

\* the same with the scheduling the browser provides: a sent request ends
\* with a load or an error event, and an armed timer fires
FairClipper ==
    /\ SpecClipper
    /\ WF_vars((\E status \in HttpStatuses : ClipLoad(status)) \/ ClipError)
    /\ WF_vars(ClipTimer)

\* the player: subtitles over a changing video
NextSubtitles ==
    \/ \E names \in FileLists : HandleFiles(names)
    \/ \E index \in 0..(MaxEntries - 1) : PlayFile(index)
    \/ \E index \in 0..(MaxEntries - 1) : RemoveFile(index)
    \/ \E name \in SubtitleNames : LoadSubtitleFile(name)
    \/ \E name \in SubtitleNames : SubtitleRead(name)
    \/ ToggleSubtitles

SpecSubtitles == Init /\ [][NextSubtitles]_vars

\* the player: the file list, playback, conversion for playback and the tabs
NextPlayer ==
    \/ \E names \in FileLists : HandleFiles(names)
    \/ \E index \in 0..(MaxEntries - 1) : PlayFile(index)
    \/ \E index \in 0..(MaxEntries - 1) : RemoveFile(index)
    \/ OnPlayerVideoLoaded
    \/ OnVideoError
    \/ OnVideoEnded
    \/ KeyTogglePlay
    \/ ClickTogglePlay
    \/ ConvertForPlayback
    \/ SkipConvert
    \/ \E id \in EntryIds, status \in HttpStatuses : ConversionLoad(id, status)
    \/ \E id \in EntryIds : ConversionError(id)
    \/ \E id \in EntryIds : ConversionTimer(id)
    \/ \E tabName \in TabNames : SwitchTab(tabName)

SpecPlayer == Init /\ [][NextPlayer]_vars

\* the same with the scheduling the browser provides: a sent request ends
\* with a load or an error event, and an armed timer fires
FairPlayer ==
    /\ SpecPlayer
    /\ WF_vars(\E id \in EntryIds :
                  \/ \E status \in HttpStatuses : ConversionLoad(id, status)
                  \/ ConversionError(id))
    /\ WF_vars(\E id \in EntryIds : ConversionTimer(id))

\* the player: the speed controls over a changing video, from a page that
\* loaded the preferences of an earlier visit
InitSpeed ==
    /\ ffmpegAvailable \in BOOLEAN
    /\ serverUp = TRUE
    /\ now = 1
    /\ files = {}
    /\ req = [r \in Requests |-> IdleReq]
    /\ proc = ListeningProc
    /\ reply = NoReply
    /\ clipper = NewClipper
    /\ \E saved \in SavedPreferences :
           player = loadPreferences(NewPlayer, saved)
    /\ currentTab = "player"

NextSpeed ==
    \/ \E names \in FileLists : HandleFiles(names)
    \/ \E index \in 0..(MaxEntries - 1) : PlayFile(index)
    \/ OnPlayerVideoLoaded
    \/ OnVideoError
    \/ \E value \in SpeedValues : ChangeSpeed(value)
    \/ \E value \in SpeedValues : SlideSpeed(value)
    \/ \E delta \in {-SpeedStep, SpeedStep} : AdjustSpeed(delta)
    \/ ResetSpeed

SpecSpeed == InitSpeed /\ [][NextSpeed]_vars

\* the same with the scheduling the runtime provides: express runs the handler
\* of an uploaded request, a spawned child ends (exit or failed spawn) and its
\* 'close' is delivered, a started stream ends and its callback runs
NextOutcomes ==
    \/ \E in \in OutcomeInputs, t \in 1..MaxClock : Upload(1, in, t)
    \/ \E k \in ChunkSizes : FfmpegStderr(1, k)
    \/ GetFormats
    \/ \E t \in 1..MaxClock : Convert(1, t)
    \/ \E t \in 1..MaxClock : Clip(1, t)
    \/ FfmpegWritesOutput(1)
    \/ \E code \in ExitCodes \cup {SpawnFailCode} : Close(1, code)
    \/ Error(1)
    \/ \E outcome \in DownloadOutcomes : Download(1, outcome)

FairInputs ==
    /\ Init /\ [][NextOutcomes]_vars
    /\ WF_vars(\E t \in 1..MaxClock : Convert(1, t))
    /\ WF_vars(\E t \in 1..MaxClock : Clip(1, t))
    /\ WF_vars(\E code \in ExitCodes \cup {SpawnFailCode} : Close(1, code))
    /\ WF_vars(\E outcome \in DownloadOutcomes : Download(1, outcome))

\* ------------------------------------------------- vocabulary of the claims
Handled(q) == q.pc \notin {"idle", "uploaded"}
InFlight(q) == q.pc \in {"uploaded", "running", "errored", "streaming"}

\* the format a request asks for: clip falls back to mp4 when the field is
\* missing or empty
RequestedFormat(q) ==
    IF q.kind = "clip" THEN formatOrDefault(q.format) ELSE q.format
SupportedFormat(q) ==
    RequestedFormat(q) \in {"mp4", "webm", "mkv", "mov", "mp3", "wav"}

ParsedStart(q) == OrZero(parseFloat(q.startTime))
ParsedEnd(q) == parseFloat(q.endTime)
BadRange(q) ==
    q.kind = "clip" /\ (ParsedEnd(q).nan \/ ParsedEnd(q).val <= ParsedStart(q).val)

PassedValidation(q) ==
    ffmpegAvailable /\ q.hasFile /\ SupportedFormat(q) /\ ~BadRange(q)

Has(log, tag) == \E i \in 1..Len(log) : log[i] = tag
First(log, tag) ==
    IF Has(log, tag)
    THEN CHOOSE i \in 1..Len(log) :
            log[i] = tag /\ \A j \in 1..(i - 1) : log[j] # tag
    ELSE 0
\* when b happened, a happened before it
Precedes(log, a, b) ==
    Has(log, b) => (Has(log, a) /\ First(log, a) < First(log, b))

\* --------------------------------------------------------------- claims
\* C1: once the handling of a convert or clip request has completed, neither
\* its upload nor its output file exists in the scratch directory.
C1_NoScratchFileRemains ==
    \A r \in Requests :
        req[r].pc = "done" =>
            /\ req[r].filePath \notin files
            /\ req[r].outputPath \notin files

\* C2: when ffmpegAvailable is false, every handled request has spawned no
\* child, has deleted its upload if it had one, and was answered 500 with
\* 'FFmpeg is not installed on the server'.
C2_ToolMissingAnswer ==
    \A r \in Requests :
        (~ffmpegAvailable /\ Handled(req[r])) =>
            /\ req[r].spawns = 0
            /\ req[r].status = 500
            /\ req[r].error = NotInstalled
            /\ req[r].hasFile => Has(req[r].log, "unlinkInput")

\* C3: with the tool available and a file present, a request whose format is
\* not one of mp4, webm, mkv, mov, mp3, wav is answered 400 'Invalid format',
\* its upload is deleted and no child is spawned.
C3_FormatFailsClosed ==
    \A r \in Requests :
        (ffmpegAvailable /\ req[r].hasFile /\ Handled(req[r])
            /\ ~SupportedFormat(req[r])) =>
            /\ req[r].status = 400
            /\ req[r].error = "Invalid format"
            /\ req[r].spawns = 0
            /\ Has(req[r].log, "unlinkInput")

\* C4: a clip request with the tool available, a file and a supported format
\* whose endTime does not parse or is not greater than its startTime is
\* answered 400 'Invalid time range', its upload is deleted and no child is
\* spawned.
C4_InvalidRangeRejected ==
    \A r \in Requests :
        (ffmpegAvailable /\ req[r].hasFile /\ Handled(req[r])
            /\ SupportedFormat(req[r]) /\ BadRange(req[r])) =>
            /\ req[r].status = 400
            /\ req[r].error = "Invalid time range"
            /\ req[r].spawns = 0
            /\ Has(req[r].log, "unlinkInput")

\* C5: every clip request for which a child was spawned has a range with
\* start >= 0, end >= 0 and end > start.
C5_SpawnedClipRangeNonNegative ==
    \A r \in Requests :
        (req[r].kind = "clip" /\ req[r].spawns > 0) =>
            /\ req[r].clipStart >= 0
            /\ req[r].clipEnd >= 0
            /\ req[r].clipEnd > req[r].clipStart

\* C6: whatever the child-process events of a request, at most one response
\* is written for it, no handler writes after a response was sent, and the
\* server keeps running.
C6_NoRequestIsFatal ==
    /\ serverUp
    /\ \A r \in Requests :
        /\ req[r].responses <= 1
        /\ req[r].lateWrites = 0

\* C7: the first failing check decides the answer, in the order tool
\* availability, file presence, format validity and (clip) time range, and a
\* request that fails a check spawns no child.
C7_FirstFailingCheckDecides ==
    \A r \in Requests :
        LET q == req[r]
            failed == ~ffmpegAvailable \/ ~q.hasFile \/ ~SupportedFormat(q)
                        \/ BadRange(q)
            expected ==
                IF ~ffmpegAvailable THEN NotInstalled
                ELSE IF ~q.hasFile THEN "No video file provided"
                ELSE IF ~SupportedFormat(q) THEN "Invalid format"
                ELSE "Invalid time range"
        IN  (Handled(q) /\ failed) => (q.error = expected /\ q.spawns = 0)

\* C8: two requests in flight at the same time never share an input scratch
\* path nor an output scratch path.
C8_ScratchPathsUnique ==
    \A r1, r2 \in Requests :
        (r1 # r2 /\ InFlight(req[r1]) /\ InFlight(req[r2])) =>
            /\ (req[r1].hasFile /\ req[r2].hasFile)
                    => req[r1].filePath # req[r2].filePath
            /\ (req[r1].outputPath # NoPath /\ req[r2].outputPath # NoPath)
                    => req[r1].outputPath # req[r2].outputPath

ChildEnded(log) == Has(log, "close") \/ Has(log, "error")
EndsBefore(log, tag) ==
    Has(log, tag) =>
        \/ Precedes(log, "close", tag)
        \/ Precedes(log, "error", tag)

\* C9: a request that passed validation is invoked, and it is answered (with
\* the download or an error) only after its child has exited or failed to
\* spawn; validation precedes the invocation, the invocation the stream, and
\* the stream the final cleanup of the output.
C9_NoResponseBeforeChildEnds ==
    \A r \in Requests :
        LET q == req[r]
        IN  (Handled(q) /\ PassedValidation(q)) =>
                /\ q.spawns = 1
                /\ Precedes(q.log, "validate", "invoke")
                /\ (q.responses > 0 \/ q.headersSent) => ChildEnded(q.log)
                /\ EndsBefore(q.log, "respond")
                /\ EndsBefore(q.log, "stream")
                /\ Precedes(q.log, "invoke", "stream")
                /\ Precedes(q.log, "stream", "streamEnd")
                /\ Precedes(q.log, "streamEnd", "unlinkOutput")

\* a valid request went through validate, invoke, stream and cleanup and was
\* answered with the download
C9_Witness ==
    \E r \in Requests :
        /\ PassedValidation(req[r])
        /\ req[r].pc = "done"
        /\ req[r].status = 200
        /\ Has(req[r].log, "unlinkOutput")

C10_Step ==
    \A r \in Requests :
        LET q == req[r]
            q2 == req'[r]
        IN  /\ (q.pc = "running" /\ q2.pc # "running") =>
                /\ q2.inputPath \notin files'
                /\ Has(q2.log, "close") =>
                    /\ (q2.exitCode = 0) <=> (q2.pc = "streaming")
                    /\ (q2.exitCode # 0) <=>
                        (q2.pc = "done" /\ q2.status = 500
                            /\ q2.error = failedMessage(q2.kind))
                /\ Has(q2.log, "error") =>
                    (q2.status = 500 /\ q2.error = startFailedMessage(q2.kind))
            /\ (q.spawns = 1 /\ (q2.responses > q.responses
                                    \/ Has(q2.log, "stream"))) =>
                (Has(q2.log, "unlinkInput") \/ Has(q2.log, "unlinkInput:ENOENT"))

\* C10: the handler that ends the transcoder's run ('close' or 'error')
\* leaves no input file behind before a response or the download starts, and
\* the response depends on the exit code only, not on whether the input file
\* was still there.
C10_InputDeletedBeforeResponse == [][C10_Step]_vars

\* a child exited with a non-zero code when its input file was already gone,
\* and the request got the usual failure answer
C10_Witness ==
    \E r \in Requests :
        /\ req[r].pc = "done"
        /\ Has(req[r].log, "unlinkInput:ENOENT")
        /\ req[r].exitCode = 1
        /\ req[r].status = 500
        /\ req[r].error = failedMessage(req[r].kind)

C11_Step ==
    \A r \in Requests :
        LET q == req[r]
            q2 == req'[r]
        IN  (q.pc = "streaming" /\ q.outputPath \in files) =>
                IF q2.pc = "streaming" THEN q.outputPath \in files'
                ELSE q.outputPath \notin files'

\* C11: after an exit with code 0 the output file stays in the scratch
\* directory for as long as it is being streamed and is deleted by the step
\* that ends the stream, whether the stream completed or broke off.
C11_OutputKeptWhileStreaming == [][C11_Step]_vars

C12_Step ==
    \A r \in Requests :
        LET q == req[r]
            q2 == req'[r]
        IN  (q.pc = "streaming" /\ q2.pc = "done") =>
                /\ q2.outputPath \notin files'
                /\ q2.responses = 1
                /\ (q2.error = "Download failed" /\ q2.status = 500)
                        <=> (q2.delivery = "errorBeforeHeaders")
                /\ (q2.delivery = "errorAfterHeaders") =>
                        (q2.status = 200 /\ q2.error = ""
                            /\ ~Has(q2.log, "respond"))

\* C12: when the stream of a finished output ends with an error, 500
\* 'Download failed' is written exactly when no headers had been sent; after
\* the headers nothing more is written; the output file is deleted in both
\* cases.
C12_DeliveryErrorReported == [][C12_Step]_vars

\* a stream broke off after its headers were sent: the 200 stands, no error
\* body was written and the output is gone
C12_Witness ==
    \E r \in Requests :
        /\ req[r].pc = "done" /\ req[r].delivery = "errorAfterHeaders"
        /\ req[r].status = 200 /\ req[r].responses = 1
        /\ req[r].outputPath \notin files

C13_Step ==
    \A r \in Requests :
        LET q == req[r]
            q2 == req'[r]
            n == TextLength(q.stderr)
        IN  (q.pc = "running" /\ q2.pc # "running" /\ q2.exitCode # 0
                /\ Has(q2.log, "close")) =>
                /\ q2.pc = "done" /\ q2.responses = 1 /\ q2.status = 500
                /\ q2.error = failedMessage(q.kind)
                /\ q2.details.hi = q.stderr.hi
                /\ TextLength(q2.details) = (IF n < 300 THEN n ELSE 300)
                /\ ~Has(q2.log, "stream")
                /\ q2.inputPath \notin files' /\ q2.outputPath \notin files'

\* C13: when the child exits with a non-zero code, the step that handles the
\* exit deletes the output, answers 500 with 'details' being the last
\* min(300, n) of the n captured stderr characters, starts no download and
\* leaves no scratch file of the request.
C13_FailedExitReported == [][C13_Step]_vars

\* a failed child whose stderr was longer than the details has been reported
C13_Witness ==
    \E r \in Requests :
        /\ req[r].pc = "done" /\ req[r].exitCode # 0
        /\ TextLength(req[r].stderr) > 300
        /\ TextLength(req[r].details) = 300
        /\ req[r].details.lo > 1

\* C14: the captured stderr text held for a request is never longer than 500
\* characters.
C14_StderrBounded ==
    \A r \in Requests : TextLength(req[r].stderr) <= 500

\* the request has its response and none of its scratch files is left
RespondedAndCleanedUp(q) ==
    /\ q.pc \in {"done", "crashed"}
    /\ q.responses >= 1
    /\ q.filePath \notin files
    /\ q.outputPath \notin files

C15_RejectedStaysRejected ==
    \A r \in Requests : Has(req[r].log, "reject") => ~Has(req'[r].log, "invoke")

\* C15: every request that arrived is eventually answered with none of its
\* scratch files left, so it stays in no intermediate state for ever, and a
\* rejected request never goes on to invoke the tool.
C15_EveryRequestEnds ==
    /\ \A r \in Requests :
          (req[r].pc # "idle") ~> RespondedAndCleanedUp(req[r])
    /\ [][C15_RejectedStaysRejected]_vars

\* the port the process resolved is one a server can be asked to listen on
PortInRange(p) == ~p.PORT.nan /\ p.PORT.val >= 1 /\ p.PORT.val <= 65535

\* C16: the server listens only on a resolved port that is an integer in
\* 1..65535; a process that resolved any other port (0, negative, above 65535,
\* not a number) has exited with a non-zero status without ever listening.
C16_ListensOnlyOnValidPort ==
    /\ (proc.phase = "listening" \/ serverUp) => PortInRange(proc)
    /\ (proc.phase # "boot" /\ proc.resolved /\ ~PortInRange(proc)) =>
            (proc.phase = "exited" /\ proc.exitStatus # 0 /\ ~serverUp)

\* '--port=x' resolved to NaN, and the process has exited with a failure
C16_Witness ==
    /\ proc.phase = "exited" /\ proc.resolved /\ proc.PORT.nan
    /\ proc.exitStatus # 0
    /\ \E i \in 1..Len(proc.argv) : proc.argv[i] = PortEq \o <<"x">>

\* C17 as stated: the kind of source decides the port, a bare number before
\* '--port=N' before '-p N' / '--port N' before the PORT variable before 3000,
\* wherever the arguments stand on the command line.
C17_PrecedenceByKind ==
    proc.resolved => proc.PORT = getPortByKind(proc.argv, proc.env)

\* the positions of the command line that name a port in one of the three forms
PortPositions(args) ==
    {i \in 1..Len(args) :
        isBareNumber(args, i) \/ isPortEq(args, i) \/ isPortFlag(args, i)}

\* the number the port argument at position i carries
PortAt(args, i) ==
    IF isBareNumber(args, i) THEN parseInt(args[i])
    ELSE IF isPortEq(args, i) THEN parseInt(splitEq1(args[i]))
    ELSE parseInt(args[i + 1])

\* C17, amended: among the command-line arguments the first one, in order of
\* appearance, that names a port (a bare number, '--port=N', or '-p' /
\* '--port' followed by a number) decides, whatever its kind; any of them wins
\* over the PORT variable, and with neither the port is 3000.
C17_FirstPortArgumentDecides ==
    proc.resolved =>
        LET P == PortPositions(proc.argv)
        IN  IF P # {}
            THEN proc.PORT = PortAt(proc.argv, CHOOSE i \in P : \A j \in P : i <= j)
            ELSE IF parseInt(proc.env).nan \/ parseInt(proc.env).val = 0
            THEN proc.PORT = Num(3000)
            ELSE proc.PORT = parseInt(proc.env)

\* '--port=90 80' was given and the port is 90
C17_Witness ==
    /\ proc.resolved
    /\ proc.argv = <<PortEq \o <<"9", "0">>, <<"8", "0">>>>
    /\ proc.PORT = Num(90)

C18_Step ==
    /\ (ffmpegAvailable' # ffmpegAvailable) => (proc.phase = "boot" /\ ~serverUp)
    /\ (reply'.status # reply.status) =>
            /\ reply'.status = <<ffmpegAvailable>>
            /\ UNCHANGED <<client, ffmpegAvailable, serverUp, now, files, req, proc>>

\* C18: the tool-availability flag changes only in the startup step, before
\* the server listens; GET /api/ffmpeg-status answers with the flag as it is
\* and changes neither the flag, nor a request, nor a scratch file.
C18_StatusIsStartupFlag == [][C18_Step]_vars

\* the status was answered 'not available' on a server that has rejected a
\* request for the missing tool
C18_Witness ==
    /\ reply.status = <<FALSE>>
    /\ req[1].pc = "done" /\ req[1].error = NotInstalled

C19_Step ==
    /\ proc.phase # "boot" => proc' = proc
    /\ \A f \in files \cap Leftover : f \notin files' => proc.phase = "boot"
    /\ \A r \in Requests :
          LET q == req[r]
          IN  (InFlight(q) /\ q.filePath \in files /\ q.filePath \notin files')
                  => proc'.purges = proc.purges

\* C19: the purge runs once, in the startup step and never after it; no
\* request is accepted before it has run; from the moment the server listens
\* the scratch directory holds no entry of a previous run except those whose
\* deletion failed; no file of a request in flight is deleted by a purge.
C19_PurgeBeforeListening ==
    /\ [](proc.phase = "boot" => \A r \in Requests : req[r].pc = "idle")
    /\ [](serverUp => (proc.purges = 1 /\ files \cap Leftover \subseteq proc.locked))
    /\ [][C19_Step]_vars

\* the server listens over a leftover that could not be deleted, the other
\* leftover is gone, and a request is in flight with its output written
C19_Witness ==
    /\ serverUp /\ proc.purges = 1
    /\ Cardinality(proc.locked) = 1
    /\ files \cap Leftover = proc.locked
    /\ req[1].pc = "running" /\ req[1].outputPath \in files

CodecOf(f) ==
    CASE f \in {"mp4", "mkv", "mov"} ->
            <<"-c:v", "libx264", "-c:a", "aac", "-preset", "fast">>
      [] f = "webm" -> <<"-c:v", "libvpx-vp9", "-c:a", "libopus", "-b:v", "1M">>
      [] f = "mp3" -> <<"-vn", "-c:a", "libmp3lame", "-q:a", "2">>
      [] f = "wav" -> <<"-vn", "-c:a", "pcm_s16le">>
      [] OTHER -> <<>>

SubtitleExtensions ==
    {<<"s", "r", "t">>, <<"v", "t", "t">>, <<"a", "s", "s">>,
     <<"s", "s", "a">>, <<"s", "u", "b">>}

\* C23: a subtitle file whose extension is srt, vtt, ass, ssa or sub (in any
\* case) ends up attached as the video's track once it is read; a file with
\* any other extension is rejected and leaves the current track as it was.
C23_Step ==
    \A name \in SubtitleNames :
        (/\ \E r \in player.reading : r.name = name
         /\ \A r \in player'.reading : r.name # name) =>
            IF getExtension(name) \in SubtitleExtensions
            THEN /\ player'.tracks = <<name>>
                 /\ player'.currentSubtitleTrack = <<name>>
            ELSE /\ player'.tracks = player.tracks
                 /\ player'.currentSubtitleTrack = player.currentSubtitleTrack
C23_ListedSubtitleAttached == [][C23_Step]_vars

\* a step of one of the speed controls
SpeedOperation ==
    \/ \E value \in SpeedValues : ChangeSpeed(value) \/ SlideSpeed(value)
    \/ \E delta \in {-SpeedStep, SpeedStep} : AdjustSpeed(delta)
    \/ ResetSpeed

\* C24: after every speed dropdown change, slider input, keyboard speed
\* adjustment and reset, the stored speed preference and video.playbackRate
\* are equal and lie within 0.1 .. 4.
C24_Step ==
    SpeedOperation =>
        /\ player'.speed = player'.playbackRate
        /\ player'.speed >= MinSpeed
        /\ player'.speed <= MaxSpeed
C24_SpeedAndRateAgree == [][C24_Step]_vars

\* the slider was pulled below the range while a file was loaded, and the
\* preference and the rate both sit at the lower end
C24_Witness ==
    /\ player.loadState = "loaded"
    /\ player.speed = MinSpeed
    /\ player.playbackRate = MinSpeed

\* C25: every clip request that was started eventually leaves the tab idle
\* again, the start button enabled and the progress display hidden, whether
\* the request ends with status 200, with an error status or with a network
\* error.
C25_RequestReturnsToIdle ==
    clipper.startClipDisabled ~>
        (~clipper.startClipDisabled /\ ~clipper.progressShown)

\* C26: the player's isConverting flag, set by convertForPlayback, is
\* eventually false again, whatever the outcome of the conversion request.
C26_ConvertingEventuallyReset == player.isConverting ~> ~player.isConverting

\* C27: whenever the video's source is a file's URL, it is a URL of
\* localFiles[currentIndex]; the end of a conversion does not start a file
\* that is no longer the current one or was removed from the list.
C27_SourceIsCurrentFile ==
    player.src # NoSrc =>
        /\ player.currentIndex >= 0
        /\ player.currentIndex < Len(player.localFiles)
        /\ fileAt(player, player.currentIndex).id = player.src[1]

\* C28: -1 <= currentIndex < localFiles.length after any sequence of file
\* additions, plays, removals, ended events and skipped prompts; and removing
\* a file other than the current one leaves currentIndex pointing at the same
\* entry.
C28_InRange ==
    /\ player.currentIndex >= -1
    /\ player.currentIndex < Len(player.localFiles)
C28_Step ==
    (/\ Len(player'.localFiles) < Len(player.localFiles)
     /\ player.currentIndex >= 0
     /\ player.currentIndex < Len(player.localFiles)
     /\ entryOf(player', fileAt(player, player.currentIndex).id) # <<>>) =>
        /\ player'.currentIndex >= 0
        /\ player'.currentIndex < Len(player'.localFiles)
        /\ fileAt(player', player'.currentIndex).id =
               fileAt(player, player.currentIndex).id
C28_CurrentIndexValid == []C28_InRange /\ [][C28_Step]_vars

\* the first of two files was removed while the second was the current one:
\* the second is now entry 0 and still the current one
C28_Witness ==
    /\ Len(player.localFiles) = 1
    /\ player.localFiles[1].id = 2
    /\ player.currentIndex = 0
    /\ player.src = <<2, "url">>

\* C29: whenever the active tab is not the player tab, the player's video is
\* paused: after a switch to the clip or convert tab no keyboard shortcut,
\* ended event or finished conversion starts playback before the player tab
\* is active again.
C29_PausedOutsidePlayerTab == currentTab # "player" => player.paused

\* C30: at most one subtitle track is attached to the video, and
\* currentSubtitleTrack is non-null exactly when one is attached; once
\* playFile has switched the video, no track is attached until the user
\* selects a subtitle file again, also when a file chosen before the switch
\* is read to its end only after it.
C30_TrackRecorded ==
    /\ Len(player.tracks) <= 1
    /\ player.currentSubtitleTrack # <<>> <=> player.tracks # <<>>
C30_Step ==
    \A r \in player.reading :
        (r \notin player'.reading /\ player'.tracks = <<r.name>>) =>
            r.src = player.src
C30_NoTrackFromEarlierVideo == []C30_TrackRecorded /\ [][C30_Step]_vars
====
